---- MODULE Spec2Model ----
(***************************************************************************)
(* flowgraph: the NetFlow collector (collector.py), the flow store         *)
(* (store.py) and the lateral-movement graph builder (analytics.py).       *)
(***************************************************************************)
EXTENDS Integers, Sequences, FiniteSets, TLC

VARIABLES
    now,          \* time.time(), seconds
    input,        \* Collector.input: queue of RawPacket
    received,     \* number of datagrams handled by QueuingRequestHandler
    handlers,     \* QueuingRequestHandler threads that have not yet put
    dequeued,     \* ids of the packets Collector.run got from input, in order
    templates,    \* Collector.run: templates = {"netflow": {}, "ipfix": {}}
    to_retry,     \* Collector.run: to_retry
    processed,    \* the calls of Collector._process_export, in order
    dropped,      \* the packets logged as dropped by Collector.run
    collector_pc, \* Collector thread: "running" or "crashed"
    store_queue,  \* InboundFlowStore.queue
    puts,         \* number of records put on InboundFlowStore.queue
    table,        \* rows of the flows table
    graph_pc,     \* FlowFinder.build_graphs: "build" or "done"
    triple_i,     \* build_graphs: index of the triple of the outer loop
    seeds_todo,   \* build_graphs: rows of the wide search not yet iterated
    seed,         \* build_graphs: flow, the seed being explored
    graph,        \* build_graphs: graph
    seen_nodes,   \* build_graphs: seen_nodes
    stack,        \* the active calls of _find_child_flows, innermost last
    expanded,     \* addresses added to seen_nodes by _find_child_flows, in order
    found,        \* flows the deep searches of this traversal returned
    graphs,       \* build_graphs: graphs
    files         \* the .graphml files written

vars == <<now, input, received, handlers, dequeued, templates, to_retry,
          processed, dropped, collector_pc, store_queue, puts, table, graph_pc, triple_i,
          seeds_todo, seed, graph, seen_nodes, stack, expanded, found, graphs,
          files>>

graphVars == <<graph_pc, triple_i, seeds_todo, seed, graph, seen_nodes, stack,
               expanded, found, graphs, files>>

collectorVars == <<now, input, received, handlers, dequeued, templates,
                   to_retry, processed, dropped, collector_pc>>

storeVars == <<store_queue, puts, table>>

----------------------------------------------------------------------------
(* Bounds of the model. *)

MaxPackets == 3

MaxHandlers == 2

MaxPuts == 3

MaxRows == 2

MaxDepth == 5

----------------------------------------------------------------------------
(* store.py: the flows table and InboundFlowStore. *)

Endpoints == {<<"A", 1234>>, <<"B", 22>>}

StartTimes == {1, 2}

EndTimes == {2, 3}

\* class Flow without its id: what a producer puts on the queue.
Flow ==
    { [source_address |-> s[1], source_port |-> s[2],
       destination_address |-> d[1], destination_port |-> d[2],
       protocol |-> 6, start |-> st, end |-> en] :
        s \in Endpoints, d \in Endpoints, st \in StartTimes, en \in EndTimes }

\* A row of the table: the flow with its primary key.
Row(flow, id) ==
    [id |-> id,
     source_address |-> flow.source_address, source_port |-> flow.source_port,
     destination_address |-> flow.destination_address,
     destination_port |-> flow.destination_port,
     protocol |-> flow.protocol, start |-> flow.start, end |-> flow.end]

\* The filter of InboundFlowStore.run: same orientation or swapped one.
MatchesFlow(existing_flow, flow) ==
    \/ /\ existing_flow.source_address = flow.source_address
       /\ existing_flow.destination_address = flow.destination_address
       /\ existing_flow.source_port = flow.source_port
       /\ existing_flow.destination_port = flow.destination_port
       /\ existing_flow.protocol = flow.protocol
       /\ existing_flow.start = flow.start
    \/ /\ existing_flow.source_address = flow.destination_address
       /\ existing_flow.destination_address = flow.source_address
       /\ existing_flow.source_port = flow.destination_port
       /\ existing_flow.destination_port = flow.source_port
       /\ existing_flow.protocol = flow.protocol
       /\ existing_flow.start = flow.start

\* Mutant of UpdateMatches: only one of the rows the query returns is updated.
UpdateFirstMatch(rows, flow) ==
    LET matches == {r \in rows : MatchesFlow(r, flow)}
    IN  IF matches = {} THEN rows
        ELSE LET first == CHOOSE r \in matches : TRUE
             IN  (rows \ {first}) \cup {[first EXCEPT !.end = flow.end]}

\* existing_flow.end = flow.end, for every row the query returns.
UpdateMatches(rows, flow) ==
    { IF MatchesFlow(r, flow) THEN [r EXCEPT !.end = flow.end] ELSE r : r \in rows }

\* default=uuid.uuid4: a key no row has.
NewId(rows) == Cardinality(rows) + 1

\* The body of "while True" in InboundFlowStore.run for one dequeued flow.  The
\* "continue" of the update loop continues that for loop, so session.add(flow)
\* runs after the loop whether or not a row matched.
MergeOrInsert(rows, flow) ==
    LET updated == UpdateMatches(rows, flow)
    IN  updated \cup {Row(flow, NewId(updated))}

StoreInit ==
    /\ store_queue = <<>>
    /\ puts = 0
    /\ table = {}

\* A producer calls InboundFlowStore.queue.put(flow).
StorePut ==
    /\ puts < MaxPuts
    /\ \E flow \in Flow : store_queue' = Append(store_queue, flow)
    /\ puts' = puts + 1
    /\ UNCHANGED table

\* One iteration of InboundFlowStore.run.
StoreRun ==
    /\ IF store_queue = <<>>
       THEN UNCHANGED <<store_queue, table>>
       ELSE /\ store_queue' = Tail(store_queue)
            /\ table' = MergeOrInsert(table, Head(store_queue))
    /\ UNCHANGED puts

----------------------------------------------------------------------------
(* collector.py: the listener and Collector.run. *)

TIMEOUT == 3600

\* The instants at which the clock is read: packets are young or, at the last
\* instant, older than TIMEOUT.
Instants == {0, 3601}

TemplateIds == [netflow |-> {1, 2}, ipfix |-> {1}]

\* netflow.parse_packet: version 9 reads templates["netflow"], 10 reads
\* templates["ipfix"].
Family(version) == IF version = 9 THEN "netflow" ELSE "ipfix"

Small(S) == {T \in SUBSET S : Cardinality(T) <= 1}

\* The payload of a datagram: its export version, the template ids its template
\* flowsets define and the template ids its data flowsets use.
Payload ==
    { [version |-> v, defines |-> {}, uses |-> {}] : v \in {0, 5} }
    \cup { [version |-> 9, defines |-> d, uses |-> u] :
             d \in Small(TemplateIds.netflow), u \in Small(TemplateIds.netflow) }
    \cup { [version |-> 10, defines |-> d, uses |-> u] :
             d \in Small(TemplateIds.ipfix), u \in Small(TemplateIds.ipfix) }

\* RawPacket(ts, client, data); id tells two equal datagrams apart.
RawPacket(id, ts, data) == [id |-> id, ts |-> ts, data |-> data]

\* netflow.parse_packet(data, templates): the export, or the exception raised,
\* and the templates dict as the call leaves it (template flowsets are stored
\* before the data flowsets that could not be read make the call raise).
ParsePacket(data, tmpl) ==
    IF data.version \notin {1, 5, 9, 10}
    THEN [outcome |-> "UnknownExportVersion", templates |-> tmpl,
          contains_new_templates |-> FALSE]
    ELSE IF data.version \in {1, 5}
    THEN [outcome |-> "export", templates |-> tmpl,
          contains_new_templates |-> FALSE]
    ELSE LET fam == Family(data.version)
             after == [tmpl EXCEPT ![fam] = @ \cup data.defines]
         IN  [outcome |-> IF data.uses \subseteq after[fam]
                          THEN "export" ELSE "TemplateNotRecognized",
              templates |-> after,
              contains_new_templates |-> ~(data.defines \subseteq tmpl[fam])]

\* Number of flow records of a decoded export.
NumFlows(data) ==
    IF data.version \in {1, 5} THEN 1 ELSE Cardinality(data.uses)

\* Collector._process_export(export): one entry per call, with the time of the
\* call; it prints each flow record and hands it to nothing.
ProcessExport(done, payload, t, retried) ==
    Append(done, [packet |-> payload, at |-> t, retried |-> retried])

\* Mutant of OnTemplateNotRecognized: the age check is left out.
OnTemplateNotRecognizedNoExpiry(retry, payload, t) == Append(retry, payload)

\* except (V9TemplateNotRecognized, IPFIXTemplateNotRecognized).
OnTemplateNotRecognized(retry, payload, t) ==
    IF (t - payload.ts) > TIMEOUT THEN retry ELSE Append(retry, payload)

\* Mutant of OnUnknownVersion: the packet is kept for a retry.
OnUnknownVersionRetried(retry, payload) == Append(retry, payload)

\* except UnknownExportVersion: continue.
OnUnknownVersion(retry, payload) == retry

\* logger.error(f"Unknown version: {e}") and logger.error("Dropping timed out
\* packet.").
LogDropped(log, payload, why) == log \cup {[packet |-> payload, why |-> why]}

\* "for retry_payload in to_retry": parse_packet is called outside any try, so
\* the first retry that raises ends the thread before to_retry.clear().
RECURSIVE Reprocess(_, _, _, _)
Reprocess(retry, tmpl, done, t) ==
    IF retry = <<>>
    THEN [templates |-> tmpl, processed |-> done, raised |-> FALSE]
    ELSE LET res == ParsePacket(Head(retry).data, tmpl)
         IN  IF res.outcome = "export"
             THEN Reprocess(Tail(retry), res.templates,
                            ProcessExport(done, Head(retry), t, TRUE), t)
             ELSE [templates |-> res.templates, processed |-> done,
                   raised |-> TRUE]

\* "if export.header.version in [9, 10] and export.contains_new_templates and
\* to_retry".
RetryCondition(data, res, retry) ==
    data.version \in {9, 10} /\ res.contains_new_templates /\ retry # <<>>

CollectorInit ==
    /\ now = 0
    /\ input = <<>>
    /\ received = 0
    /\ handlers = {}
    /\ dequeued = <<>>
    /\ templates = [netflow |-> {}, ipfix |-> {}]
    /\ to_retry = <<>>
    /\ processed = <<>>
    /\ dropped = {}
    /\ collector_pc = "running"

\* Time passes.
Tick ==
    /\ \E t \in Instants : t > now /\ now' = t
    /\ UNCHANGED <<input, received, handlers, dequeued, templates, to_retry,
                   processed, dropped, collector_pc>>

\* Mutant of QueuePut: a queue of capacity one that drops what does not fit.
QueuePutBounded(q, item) == IF Len(q) >= 1 THEN q ELSE Append(q, item)

\* self.server.queue.put(item) on the queue.Queue() of Collector.__init__: one
\* locked append, no capacity.
QueuePut(q, item) == Append(q, item)

\* QueuingRequestHandler.handle, taken as one step: the handler reads the clock
\* and puts.
Handle ==
    /\ received < MaxPackets
    /\ \E data \in Payload :
          input' = QueuePut(input, RawPacket(received + 1, now, data))
    /\ received' = received + 1
    /\ UNCHANGED <<now, handlers, dequeued, templates, to_retry, processed,
                   dropped, collector_pc>>

\* ThreadingUDPServer starts a thread for the datagram: data = self.request[0].
HandlerStart ==
    /\ received < MaxHandlers
    /\ \E data \in Payload :
          handlers' = handlers \cup {[id |-> received + 1, data |-> data]}
    /\ received' = received + 1
    /\ UNCHANGED <<now, input, dequeued, templates, to_retry, processed, dropped,
                   collector_pc>>

\* One of the handler threads, in any order, reaches queue.put(RawPacket(
\* time.time(), self.client_address, data)).
HandlerPut ==
    /\ \E h \in handlers :
          /\ input' = QueuePut(input, RawPacket(h.id, now, h.data))
          /\ handlers' = handlers \ {h}
    /\ UNCHANGED <<now, received, dequeued, templates, to_retry, processed,
                   dropped, collector_pc>>

\* Mutant of ClearRetry: to_retry.clear() is left out.
ClearRetryForgotten(retry, raised) == retry

\* to_retry.clear() after the retry loop, reached unless a retry raised.
ClearRetry(retry, raised) == IF raised THEN retry ELSE <<>>

\* One iteration of "while True" in Collector.run.
CollectorRun ==
    /\ collector_pc = "running"
    /\ UNCHANGED <<now, received, handlers>>
    /\ IF input = <<>>
       THEN UNCHANGED <<input, dequeued, templates, to_retry, processed, dropped,
                        collector_pc>>
       ELSE LET payload == Head(input)
                res == ParsePacket(payload.data, templates)
            IN  /\ input' = Tail(input)
                /\ dequeued' = Append(dequeued, payload.id)
                /\ IF res.outcome = "UnknownExportVersion"
                   THEN /\ to_retry' = OnUnknownVersion(to_retry, payload)
                        /\ dropped' = LogDropped(dropped, payload, "UnknownVersion")
                        /\ UNCHANGED <<templates, processed, collector_pc>>
                   ELSE IF res.outcome = "TemplateNotRecognized"
                   THEN /\ templates' = res.templates
                        /\ to_retry' = OnTemplateNotRecognized(to_retry, payload, now)
                        /\ dropped' = IF (now - payload.ts) > TIMEOUT
                                       THEN LogDropped(dropped, payload, "Expired")
                                       ELSE dropped
                        /\ UNCHANGED <<processed, collector_pc>>
                   ELSE LET done == ProcessExport(processed, payload, now, FALSE)
                        IN  /\ UNCHANGED dropped
                            /\ IF RetryCondition(payload.data, res, to_retry)
                               THEN LET swept == Reprocess(to_retry, res.templates,
                                                           done, now)
                                    IN  /\ templates' = swept.templates
                                        /\ processed' = swept.processed
                                        /\ collector_pc' =
                                             IF swept.raised THEN "crashed" ELSE "running"
                                        /\ to_retry' =
                                             ClearRetry(to_retry, swept.raised)
                               ELSE /\ templates' = res.templates
                                    /\ processed' = done
                                    /\ UNCHANGED <<to_retry, collector_pc>>

----------------------------------------------------------------------------
(* analytics.py: FlowFinder, over the queries of AnalyticsFlowStore. *)

INTERESTING_PROTOCOLS ==
    << <<6, 22, "SSH">>, <<6, 3389, "RDP (TCP)">>, <<17, 3389, "RDP (UDP)">>,
       <<6, 5985, "WinRM">>, <<6, 5986, "WinRM (TLS)">> >>

Addresses == {"A", "B", "C"}

Services == {<<6, 22>>, <<6, 3389>>, <<17, 22>>}

\* The flows the analytics pass may find in the table.
StoredFlow ==
    { [source_address |-> s, source_port |-> 1234,
       destination_address |-> d, destination_port |-> sv[2],
       protocol |-> sv[1], start |-> st, end |-> st] :
        s \in Addresses, d \in Addresses, sv \in Services, st \in StartTimes }

\* The sets of at most n elements of S.
RECURSIVE UpTo(_, _)
UpTo(S, n) ==
    IF n = 0 THEN {{}}
    ELSE LET smaller == UpTo(S, n - 1)
         IN  smaller \cup {T \cup {x} : T \in smaller, x \in S}

\* A second connection between the endpoints of f, from another source port.
SecondConnection(f) == [f EXCEPT !.source_port = 1235]

\* The rows of a table holding the flows S, keyed from n on.
RECURSIVE Rows(_, _)
Rows(S, n) ==
    IF S = {} THEN {}
    ELSE LET f == CHOOSE x \in S : TRUE
         IN  {Row(f, n)} \cup Rows(S \ {f}, n + 1)

\* Mutant of get_interseting_flows: the filter on the port is left out.
get_interseting_flows_any_port(rows, protocol, port) ==
    {r \in rows : r.protocol = protocol}

\* AnalyticsFlowStore.get_interseting_flows(protocol, port).
get_interseting_flows(rows, protocol, port) ==
    {r \in rows : r.protocol = protocol /\ r.destination_port = port}

\* Mutant of get_interseting_flows_deep: the filter on end is applied.
get_interseting_flows_deep_bounded(rows, protocol, port, source_address, start, end) ==
    {r \in rows : /\ r.protocol = protocol
                  /\ r.destination_port = port
                  /\ r.source_address = source_address
                  /\ r.start >= start
                  /\ r.end <= end}

\* AnalyticsFlowStore.get_interseting_flows_deep: the filter on end is commented
\* out.
get_interseting_flows_deep(rows, protocol, port, source_address, start, end) ==
    {r \in rows : /\ r.protocol = protocol
                  /\ r.destination_port = port
                  /\ r.source_address = source_address
                  /\ r.start >= start}

\* nx.Graph(): an undirected graph with at most one edge, and one "object"
\* attribute, per pair of nodes.
EmptyGraph == [nodes |-> {}, edges |-> {}]

\* graph.add_nodes_from([u, v]); graph.add_edge(u, v, object=label): an edge
\* between u and v in either direction is the same edge and takes the new label.
AddEdge(g, u, v, label) ==
    [nodes |-> g.nodes \cup {u, v},
     edges |-> {e \in g.edges : e.ends # {u, v}}
                 \cup {[ends |-> {u, v}, object |-> label]}]

NoSeed == [id |-> 0]

\* The file name of nx.write_graphml in build_graphs.
FileName(flow) ==
    <<flow.source_address, flow.destination_address, flow.destination_port,
      flow.protocol, flow.start>>

\* nx.write_graphml(graph, name): a file of that name is replaced.
WriteGraphml(fs, g, name) ==
    {f \in fs : f.name # name} \cup {[name |-> name, graph |-> g]}

\* Mutant of AlreadyVisited: the cycle guard is left out.
AlreadyVisitedUnchecked(parent, seen) == FALSE

\* "if (parent in seen_nodes): return".
AlreadyVisited(parent, seen) == parent \in seen

\* A call _find_child_flows(parent, graph, start, end, seen_nodes) at its entry.
Call(parent) == [parent |-> parent, at |-> "enter", i |-> 0, todo |-> {}]

\* The deep search of the call's loop for triple i.
DeepSearch(parent, i) ==
    get_interseting_flows_deep(table, INTERESTING_PROTOCOLS[i][1],
                               INTERESTING_PROTOCOLS[i][2], parent,
                               seed.start, seed.end)

Top == stack[Len(stack)]

SetTop(frame) == [stack EXCEPT ![Len(stack)] = frame]

Pop == SubSeq(stack, 1, Len(stack) - 1)

GraphInit ==
    /\ graph_pc = "build"
    /\ triple_i = 1
    /\ seeds_todo = get_interseting_flows(table, INTERESTING_PROTOCOLS[1][1],
                                          INTERESTING_PROTOCOLS[1][2])
    /\ seed = NoSeed
    /\ graph = EmptyGraph
    /\ seen_nodes = {}
    /\ stack = <<>>
    /\ expanded = <<>>
    /\ found = {}
    /\ graphs = <<>>
    /\ files = {}

\* build_graphs: the next flow of the wide search becomes the seed.
BuildGraphsSeed ==
    /\ graph_pc = "build" /\ seed = NoSeed /\ seeds_todo # {}
    /\ \E flow \in seeds_todo :
          /\ seed' = flow
          /\ seeds_todo' = seeds_todo \ {flow}
          /\ seen_nodes' = {flow.source_address}
          /\ graph' = AddEdge(EmptyGraph, flow.source_address,
                              flow.destination_address,
                              INTERESTING_PROTOCOLS[triple_i][3])
          /\ stack' = <<Call(flow.destination_address)>>
    /\ expanded' = <<>>
    /\ found' = {}
    /\ UNCHANGED <<graph_pc, triple_i, graphs, files>>

\* _find_child_flows: the visited check at the entry of the call.
FindChildFlowsEnter ==
    /\ stack # <<>> /\ Top.at = "enter"
    /\ IF AlreadyVisited(Top.parent, seen_nodes)
       THEN /\ stack' = Pop
            /\ UNCHANGED <<seen_nodes, expanded>>
       ELSE /\ seen_nodes' = seen_nodes \cup {Top.parent}
            /\ expanded' = Append(expanded, Top.parent)
            /\ stack' = SetTop([Top EXCEPT !.at = "loop", !.i = 1,
                                           !.todo = DeepSearch(Top.parent, 1)])
    /\ UNCHANGED <<graph_pc, triple_i, seeds_todo, seed, graph, found, graphs, files>>

\* _find_child_flows: one flow of the deep search is added and descended into.
FindChildFlowsFlow ==
    /\ stack # <<>> /\ Top.at = "loop" /\ Top.todo # {}
    /\ Len(stack) < MaxDepth
    /\ \E flow \in Top.todo :
          /\ graph' = AddEdge(graph, flow.source_address, flow.destination_address,
                              INTERESTING_PROTOCOLS[Top.i][3])
          /\ found' = found \cup {<<flow, INTERESTING_PROTOCOLS[Top.i][3]>>}
          /\ stack' = Append(SetTop([Top EXCEPT !.todo = @ \ {flow}]),
                             Call(flow.destination_address))
    /\ UNCHANGED <<graph_pc, triple_i, seeds_todo, seed, seen_nodes, expanded,
                   graphs, files>>

\* _find_child_flows: the loop over INTERESTING_PROTOCOLS moves on.
FindChildFlowsNextTriple ==
    /\ stack # <<>> /\ Top.at = "loop" /\ Top.todo = {}
    /\ Top.i < Len(INTERESTING_PROTOCOLS)
    /\ stack' = SetTop([Top EXCEPT !.i = @ + 1,
                                   !.todo = DeepSearch(Top.parent, Top.i + 1)])
    /\ UNCHANGED <<graph_pc, triple_i, seeds_todo, seed, graph, seen_nodes,
                   expanded, found, graphs, files>>

\* _find_child_flows: the call returns after the last triple.
FindChildFlowsReturn ==
    /\ stack # <<>> /\ Top.at = "loop" /\ Top.todo = {}
    /\ Top.i = Len(INTERESTING_PROTOCOLS)
    /\ stack' = Pop
    /\ UNCHANGED <<graph_pc, triple_i, seeds_todo, seed, graph, seen_nodes,
                   expanded, found, graphs, files>>

\* build_graphs: the traversal of the seed is over; write and keep the graph.
BuildGraphsWrite ==
    /\ graph_pc = "build" /\ seed # NoSeed /\ stack = <<>>
    /\ files' = WriteGraphml(files, graph, FileName(seed))
    /\ graphs' = Append(graphs, graph)
    /\ seed' = NoSeed
    /\ UNCHANGED <<graph_pc, triple_i, seeds_todo, graph, seen_nodes, stack,
                   expanded, found>>

\* build_graphs: the outer loop moves to the next triple.
BuildGraphsNextTriple ==
    /\ graph_pc = "build" /\ seed = NoSeed /\ seeds_todo = {}
    /\ triple_i < Len(INTERESTING_PROTOCOLS)
    /\ triple_i' = triple_i + 1
    /\ seeds_todo' = get_interseting_flows(table,
                                           INTERESTING_PROTOCOLS[triple_i + 1][1],
                                           INTERESTING_PROTOCOLS[triple_i + 1][2])
    /\ UNCHANGED <<graph_pc, seed, graph, seen_nodes, stack, expanded, found,
                   graphs, files>>

\* build_graphs: return graphs.
BuildGraphsReturn ==
    /\ graph_pc = "build" /\ seed = NoSeed /\ seeds_todo = {}
    /\ triple_i = Len(INTERESTING_PROTOCOLS)
    /\ graph_pc' = "done"
    /\ UNCHANGED <<triple_i, seeds_todo, seed, graph, seen_nodes, stack, expanded,
                   found, graphs, files>>

----------------------------------------------------------------------------
(* Specifications. *)

\* The collector process: listener threads, the Collector thread, the clock.
Init == CollectorInit /\ StoreInit /\ GraphInit

Next ==
    \/ Tick /\ UNCHANGED <<storeVars, graphVars>>
    \/ Handle /\ UNCHANGED <<storeVars, graphVars>>
    \/ CollectorRun /\ UNCHANGED <<storeVars, graphVars>>

Spec == Init /\ [][Next]_vars

\* The listener with its handler threads running side by side, and the
\* Collector thread.
ListenerNext ==
    \/ Tick /\ UNCHANGED <<storeVars, graphVars>>
    \/ HandlerStart /\ UNCHANGED <<storeVars, graphVars>>
    \/ HandlerPut /\ UNCHANGED <<storeVars, graphVars>>
    \/ CollectorRun /\ UNCHANGED <<storeVars, graphVars>>

ListenerSpec == Init /\ [][ListenerNext]_vars

\* The collector with its loop scheduled for ever.
CollectorFair ==
    /\ Init
    /\ [][Next]_vars
    /\ WF_vars(CollectorRun /\ UNCHANGED <<storeVars, graphVars>>)

\* The store writer fed by a producer.
StoreNext ==
    \/ StorePut /\ UNCHANGED <<collectorVars, graphVars>>
    \/ StoreRun /\ UNCHANGED <<collectorVars, graphVars>>

StoreSpec == Init /\ [][StoreNext]_vars

\* The collector and the store writer as the program runs them: nothing puts a
\* record on InboundFlowStore.queue.  Both threads loop forever.
PipelineNext ==
    \/ Tick /\ UNCHANGED <<storeVars, graphVars>>
    \/ Handle /\ UNCHANGED <<storeVars, graphVars>>
    \/ CollectorRun /\ UNCHANGED <<storeVars, graphVars>>
    \/ StoreRun /\ UNCHANGED <<collectorVars, graphVars>>

PipelineFair ==
    /\ Init
    /\ [][PipelineNext]_vars
    /\ WF_vars(CollectorRun /\ UNCHANGED <<storeVars, graphVars>>)
    /\ WF_vars(StoreRun /\ UNCHANGED <<collectorVars, graphVars>>)

\* The analytics pass over a table of at most MaxRows rows: stored flows, one
\* of which may have a second connection beside it.
GraphSpecInit ==
    /\ CollectorInit
    /\ store_queue = <<>>
    /\ puts = 0
    /\ \E S \in UpTo(StoredFlow, MaxRows) :
          \E D \in UpTo({SecondConnection(f) : f \in S}, 1) :
             /\ Cardinality(S \cup D) <= MaxRows
             /\ table = Rows(S \cup D, 1)
    /\ GraphInit

GraphNext ==
    \/ BuildGraphsSeed /\ UNCHANGED <<collectorVars, storeVars>>
    \/ FindChildFlowsEnter /\ UNCHANGED <<collectorVars, storeVars>>
    \/ FindChildFlowsFlow /\ UNCHANGED <<collectorVars, storeVars>>
    \/ FindChildFlowsNextTriple /\ UNCHANGED <<collectorVars, storeVars>>
    \/ FindChildFlowsReturn /\ UNCHANGED <<collectorVars, storeVars>>
    \/ BuildGraphsWrite /\ UNCHANGED <<collectorVars, storeVars>>
    \/ BuildGraphsNextTriple /\ UNCHANGED <<collectorVars, storeVars>>
    \/ BuildGraphsReturn /\ UNCHANGED <<collectorVars, storeVars>>

\* build_graphs runs to its end: it is a plain sequential call.
GraphFair == GraphSpecInit /\ [][GraphNext]_vars /\ WF_vars(GraphNext)

----------------------------------------------------------------------------
(* Claims about the store writer (StoreSpec). *)

\* C1: for every unordered pair of endpoints, protocol and start time the table
\* holds at most one row.
C1_OneRowPerLogicalFlow ==
    \A r1 \in table : \A r2 \in table : MatchesFlow(r1, r2) => r1 = r2

\* C2: a row's end is never earlier after a step of the store writer than
\* before it.
C2_EndNonDecreasing ==
    [][\A r1 \in table : \A r2 \in table' : r2.id = r1.id => r2.end >= r1.end]_vars


\* The store writer takes the head of its queue in this step.
StoreTakes == store_queue # <<>> /\ store_queue' = Tail(store_queue)

\* C15: when the store writer takes a record, every row that matches it in
\* either orientation keeps all its fields but end, which becomes the record's
\* end, and every other row is left as it was.
C15_EveryMatchGetsIncomingEnd ==
    [][StoreTakes
         => \A r \in table :
               LET after == {r2 \in table' : r2.id = r.id}
               IN  after = {IF MatchesFlow(r, Head(store_queue))
                            THEN [r EXCEPT !.end = Head(store_queue).end]
                            ELSE r}]_vars

\* C15 witness: three rows of one logical flow, the last written in the
\* orientation opposite to the first: the third record found two matching rows
\* and all three hold its end.
C15_Witness ==
    \E r1 \in table : \E r2 \in table : \E r3 \in table :
        /\ r1.id = 1 /\ r2.id = 2 /\ r3.id = 3
        /\ MatchesFlow(r1, r3) /\ MatchesFlow(r2, r3)
        /\ r1.source_address # r3.source_address
        /\ r1.end = r3.end /\ r2.end = r3.end
        /\ store_queue = <<>>

----------------------------------------------------------------------------
(* Claims about Collector.run (Spec). *)

\* Collector.run takes the head of the input queue in this step.
CollectorTakes == input # <<>> /\ input' = Tail(input)

HeadOutcome == ParsePacket(Head(input).data, templates).outcome

InSeq(x, seq) == \E i \in DOMAIN seq : seq[i] = x

IsProcessed(p, done) == \E i \in DOMAIN done : done[i].packet = p

\* C3 as stated: a packet whose template is unknown at its decode attempt is in
\* the pending set after the attempt.
C3_UnknownTemplateIsPending ==
    [][(CollectorTakes /\ HeadOutcome = "TemplateNotRecognized")
          => InSeq(Head(input), to_retry')]_vars

\* C3 amended: a packet whose template is unknown at its decode attempt leaves
\* the loop running and yields no export; it is appended to the pending set
\* unless it is already older than TIMEOUT, when it is dropped.  An export with
\* flow records of a templated family is processed only once every template it
\* uses has been defined by a packet of its family.
C3_UnknownTemplateIsPendingUnlessExpired ==
    /\ [][(CollectorTakes /\ HeadOutcome = "TemplateNotRecognized")
            => /\ collector_pc' = "running"
               /\ processed' = processed
               /\ to_retry' = IF now - Head(input).ts > TIMEOUT
                              THEN to_retry
                              ELSE Append(to_retry, Head(input))]_vars
    /\ [](\A i \in DOMAIN processed :
            LET data == processed[i].packet.data
            IN  data.version \in {9, 10}
                  => data.uses \subseteq templates[Family(data.version)])

\* C3 witness: a packet is pending for a template that is still unknown and no
\* export has been processed.
C3_Witness ==
    /\ to_retry # <<>>
    /\ ParsePacket(to_retry[1].data, templates).outcome = "TemplateNotRecognized"
    /\ processed = <<>>
    /\ collector_pc = "running"

\* C4: no pending packet is decoded by a retry at an age above TIMEOUT.
C4_NoRetryDecodeAfterTimeout ==
    \A i \in DOMAIN processed :
        processed[i].retried
          => processed[i].at - processed[i].packet.ts <= TIMEOUT

\* C5: the decoder loop is running after every packet.
C5_LoopKeepsRunning == collector_pc = "running"

\* A retry sweep runs in this step.
SweepStep ==
    /\ collector_pc = "running"
    /\ CollectorTakes
    /\ HeadOutcome = "export"
    /\ RetryCondition(Head(input).data,
                      ParsePacket(Head(input).data, templates), to_retry)

\* C6: after a retry sweep every pending packet that now decodes has been
\* processed and is no longer pending, and every pending packet that still does
\* not decode is still pending.
C6_SweepKeepsOnlyFailures ==
    [][SweepStep
         => \A i \in DOMAIN to_retry :
               IF ParsePacket(to_retry[i].data, templates').outcome = "export"
               THEN /\ IsProcessed(to_retry[i], processed')
                    /\ ~InSeq(to_retry[i], to_retry')
               ELSE InSeq(to_retry[i], to_retry')]_vars

\* C7: a packet of an unrecognized version changes neither the pending set nor
\* the templates nor the processed exports, and no such packet is ever pending
\* or processed.
C7_UnknownVersionDropped ==
    /\ [][(CollectorTakes /\ HeadOutcome = "UnknownExportVersion")
            => /\ to_retry' = to_retry
               /\ templates' = templates
               /\ processed' = processed
               /\ collector_pc' = collector_pc]_vars
    /\ [](\A i \in DOMAIN to_retry : to_retry[i].data.version \in {1, 5, 9, 10})
    /\ [](\A i \in DOMAIN processed :
            processed[i].packet.data.version \in {1, 5, 9, 10})

\* C7 witness: a packet of an unrecognized version has been dropped while
\* another packet is pending.
C7_Witness ==
    /\ \E d \in dropped : d.why = "UnknownVersion"
    /\ to_retry # <<>>


\* C13: a pending packet older than TIMEOUT eventually leaves the pending set.
C13_ExpiredPendingIsDropped ==
    (\E i \in DOMAIN to_retry : now - to_retry[i].ts > TIMEOUT)
        ~> (\A i \in DOMAIN to_retry : now - to_retry[i].ts <= TIMEOUT)

Ids(seq) == {seq[i].id : i \in DOMAIN seq}

Range(seq) == {seq[i] : i \in DOMAIN seq}

NewlyProcessed(p) ==
    \E j \in DOMAIN processed' : j > Len(processed) /\ processed'[j].packet = p

\* C16: a retry sweep triggered by an export of one family leaves every pending
\* packet of the other family pending and undecoded.
C16_SweepLeavesOtherFamilyPending ==
    [][SweepStep
         => \A i \in DOMAIN to_retry :
               Family(to_retry[i].data.version) # Family(Head(input).data.version)
                 => /\ InSeq(to_retry[i], to_retry')
                    /\ ~NewlyProcessed(to_retry[i])]_vars

\* The state of packet p in the state machine of the decoder.
PacketState(p, in, retry, done, drop) ==
    IF IsProcessed(p, done) THEN "Decoded"
    ELSE IF [packet |-> p, why |-> "UnknownVersion"] \in drop
    THEN "Dropped:UnknownVersion"
    ELSE IF [packet |-> p, why |-> "Expired"] \in drop THEN "Dropped:Expired"
    ELSE IF InSeq(p, retry) THEN "AwaitingTemplate"
    ELSE IF InSeq(p, in) THEN "Received"
    ELSE "Unseen"

\* The packets the collector holds or has handled.
KnownPackets(in, retry, done, drop) ==
    Range(in) \cup Range(retry) \cup {done[i].packet : i \in DOMAIN done}
      \cup {d.packet : d \in drop}

\* The transitions of the state machine as the specification gives them.
StatedTransition(from, to) ==
    \/ from = to
    \/ from = "Unseen" /\ to = "Received"
    \/ from = "Received"
         /\ to \in {"Decoded", "AwaitingTemplate", "Dropped:UnknownVersion"}
    \/ from = "AwaitingTemplate" /\ to \in {"Decoded", "Dropped:Expired"}

\* No packet is processed by _process_export twice.
ProcessedAtMostOnce ==
    \A i \in DOMAIN processed : \A j \in DOMAIN processed :
        processed[i].packet = processed[j].packet => i = j

C20_RetryListLifecycle ==
    [][/\ (CollectorTakes /\ HeadOutcome = "TemplateNotRecognized")
            => to_retry' = IF now - Head(input).ts > TIMEOUT
                           THEN to_retry
                           ELSE Append(to_retry, Head(input))
       /\ (\E i \in DOMAIN to_retry : ~InSeq(to_retry[i], to_retry'))
            => SweepStep
       /\ SweepStep
            => /\ to_retry' = <<>>
               /\ \A i \in DOMAIN to_retry : NewlyProcessed(to_retry[i])]_vars

----------------------------------------------------------------------------
(* Claims about the pipeline (PipelineFair). *)

\* C8: once an export with flow records has been processed, a row for it is
\* eventually in the table.
C8_DecodedFlowIsPersisted ==
    (\E i \in DOMAIN processed : NumFlows(processed[i].packet.data) > 0)
        ~> (table # {})

----------------------------------------------------------------------------
(* Claims about the graph builder (GraphFair). *)

\* The (source, destination, label) triples of the seed and of the flows found
\* so far in this traversal.
TraversalTriples ==
    {<<seed.source_address, seed.destination_address,
       INTERESTING_PROTOCOLS[triple_i][3]>>}
      \cup {<<fl[1].source_address, fl[1].destination_address, fl[2]>> : fl \in found}

\* C9: the graph of a seed has exactly the endpoints of the seed and of the
\* found flows as nodes, and exactly one edge (source, destination, label) for
\* the seed and for each found flow.
C9_GraphIsSeedPlusFoundFlows ==
    seed # NoSeed
      => /\ graph.nodes = {t[1] : t \in TraversalTriples}
                            \cup {t[2] : t \in TraversalTriples}
         /\ \A t \in TraversalTriples :
               \E e \in graph.edges : e.ends = {t[1], t[2]} /\ e.object = t[3]
         /\ Cardinality(graph.edges) = Cardinality(TraversalTriples)

\* C10: in a traversal no address is expanded twice, the depth of the recursion
\* is at most the number of addresses reached, and build_graphs returns.
C10_TraversalTerminates ==
    /\ [](\A i \in DOMAIN expanded : \A j \in DOMAIN expanded :
            expanded[i] = expanded[j] => i = j)
    /\ [](Len(stack) <= Cardinality(graph.nodes))
    /\ <>(graph_pc = "done")

\* C10 witness: the traversal of a seed has returned after it found a flow
\* leading back from the seed's destination to the seed's source.
C10_Witness ==
    /\ seed # NoSeed
    /\ stack = <<>>
    /\ expanded # <<>>
    /\ seed.source_address # seed.destination_address
    /\ \E fl \in found : /\ fl[1].source_address = seed.destination_address
                         /\ fl[1].destination_address = seed.source_address

\* The rows whose protocol and destination port are those of triple i.
IsInteresting(r, i) ==
    /\ r.protocol = INTERESTING_PROTOCOLS[i][1]
    /\ r.destination_port = INTERESTING_PROTOCOLS[i][2]

\* The seed flows of a run: the rows some interesting triple matches.
SeedRows ==
    {r \in table : \E i \in DOMAIN INTERESTING_PROTOCOLS : IsInteresting(r, i)}

\* C11: build_graphs returns one graph per seed flow, none and no file when
\* there is no seed flow, and the visited set of a traversal holds only its own
\* seed's source and the addresses it expanded itself.
C11_OneGraphPerSeed ==
    /\ graph_pc = "done"
         => /\ Len(graphs) = Cardinality(SeedRows)
            /\ SeedRows = {} => (graphs = <<>> /\ files = {})
    /\ seed # NoSeed => seen_nodes = {seed.source_address} \cup Range(expanded)

\* C11 witness: build_graphs has returned two graphs from a table with two seed
\* flows.
C11_Witness ==
    /\ graph_pc = "done"
    /\ Len(graphs) = 2
    /\ Cardinality(SeedRows) = 2

\* C12: after a run there are as many files as seed flows.
C12_OneFilePerSeed ==
    graph_pc = "done" => Cardinality(files) = Cardinality(SeedRows)

C19_DistinctTriplesAreDistinctEdges ==
    seed # NoSeed
      => \A t1 \in TraversalTriples : \A t2 \in TraversalTriples :
            t1 # t2
              => \E e1 \in graph.edges : \E e2 \in graph.edges :
                    /\ e1 # e2
                    /\ e1.ends = {t1[1], t1[2]} /\ e1.object = t1[3]
                    /\ e2.ends = {t2[1], t2[2]} /\ e2.object = t2[3]

====
